---- MODULE Spec2Model ----
(***************************************************************************)
(* Station guessing game: the station aggregator                           *)
(* (process_station_data.py), the catalog loaders, the selection and       *)
(* summary engines and the session state machine of the two Streamlit      *)
(* front-ends (app.py, app_cloud.py), and the tile generator               *)
(* (kanto_xyz_generator.py).                                               *)
(*                                                                         *)
(* Distances are kept in tenths of a kilometre, coordinates in 1e-4        *)
(* degree, so that the thresholds and the bounding box of the source are   *)
(* exact integers.                                                         *)
(***************************************************************************)
EXTENDS Integers, Sequences, FiniteSets, TLC

VARIABLES
    \* ---- select_random_station called as a function -------------------
    sel_stations,        \* the catalog passed in
    sel_difficulty,      \* difficulty_level
    sel_result,          \* NotCalled, a station, or IndexError
    \* ---- calculate_game_summary called as a function ------------------
    sum_results,         \* game_results passed in
    sum_summary,         \* NotCalled, None or the summary dict
    \* ---- process_station_data ----------------------------------------
    features,            \* data["features"] of the input file
    kanto_stations,      \* the features that passed the bounding-box test
    integrated_stations, \* the features written to the output file
    proc_pc,             \* "start" before the run, "done" after it,
                         \* "raised" after a run that an exception ended
    \* ---- load_stations of the front-ends on the written file ---------
    loaded_app,          \* NotCalled, ValueError or [returned |-> list]
    loaded_cloud,        \* NotCalled, None or [returned |-> list]
    \* ---- main of kanto_xyz_generator.py ------------------------------
    prefecture_features, \* prefecture_gj["features"]
    railroad_features,   \* railroad_gj["features"]
    outdir_created,      \* outdir.mkdir was called
    kanto_prefectures,   \* the prefecture features the pre-filter kept
    kanto_railroads,     \* the railroad features the pre-filter kept
    tiles_written,       \* the tile files saved, each with its image
    gen_pc,              \* "start" before the run, "done" after it
    \* ---- iter_geoms called as a function ------------------------------
    iter_feature,        \* the feature or geometry passed in
    iter_yielded,        \* per traversal, the pairs it yielded
    \* ---- st.session_state of one browser session ---------------------
    app,                 \* the front-end that runs: "app" or "cloud"
    stations,
    current_station,
    game_started,
    score,
    round,
    total_rounds,
    clicked_location,
    game_results,
    show_result,
    current_result,
    difficulty_level,
    game_history,
    show_summary

vars_game == <<app, stations, current_station, game_started, score, round,
               total_rounds, clicked_location, game_results, show_result,
               current_result, difficulty_level, game_history, show_summary>>

vars_load == <<loaded_app, loaded_cloud>>
vars_iter == <<iter_feature, iter_yielded>>
vars_gen == <<prefecture_features, railroad_features, outdir_created,
              kanto_prefectures, kanto_railroads, tiles_written, gen_pc,
              vars_iter>>

vars_other == <<sel_stations, sel_difficulty, sel_result, sum_results,
                sum_summary, features, kanto_stations, integrated_stations,
                proc_pc, vars_load, vars_gen>>

vars == <<sel_stations, sel_difficulty, sel_result, sum_results, sum_summary,
          features, kanto_stations, integrated_stations, proc_pc, vars_load,
          vars_gen, vars_game>>

vars_sel == <<sel_stations, sel_difficulty, sel_result>>
vars_sum == <<sum_results, sum_summary>>
vars_proc == <<features, kanto_stations, integrated_stations, proc_pc>>

(***************************************************************************)
(* Bounds of the model.                                                    *)
(***************************************************************************)
MinCatalog == 4
MaxCatalog == 7
MaxPassengers == 3
MaxDifficulty == 3
MaxResults == 3
MaxFeatures == 2
MaxFeaturePassengers == 2
MaxGameCatalog == 6
MaxRounds == 2
MaxHistory == 2
MaxFormatFeatures == 2
MaxTileFeatures == 2
MaxZoom == 7
MaxTraversals == 2

(***************************************************************************)
(* Values that stand for Python's None, for an uncalled function and for   *)
(* a raised exception.  They are records so that they compare with the     *)
(* records they stand in for.                                              *)
(***************************************************************************)
NotCalled == [tag |-> "NotCalled"]
None == [tag |-> "None"]
IndexError == [tag |-> "IndexError"]
ValueError == [tag |-> "ValueError"]

Range(s) == {s[i] : i \in DOMAIN s}

RECURSIVE SumSeq(_)
SumSeq(s) == IF s = <<>> THEN 0 ELSE s[1] + SumSeq(Tail(s))

Min(S) == CHOOSE x \in S : \A y \in S : x <= y
Max(S) == CHOOSE x \in S : \A y \in S : x >= y

(***************************************************************************)
(* sorted(seq, key=..., reverse=True) is a stable sort: entries with equal *)
(* keys keep their relative order.  Given the keys of the entries,         *)
(* SortedDescOrder is the order in which the sort emits the indices: index *)
(* i lands at position (number of entries with a larger key) + (number of  *)
(* earlier entries with the same key) + 1.                                 *)
(***************************************************************************)
SortedDescOrder(keys) ==
    LET n == Len(keys)
        pos(i) == Cardinality({j \in 1..n : keys[j] > keys[i]})
                  + Cardinality({j \in 1..(i-1) : keys[j] = keys[i]}) + 1
    IN  [r \in 1..n |-> CHOOSE i \in 1..n : pos(i) = r]

\* sorted(stations, key=lambda x: x['passengers'], reverse=True)
sorted_stations(catalog) ==
    LET order == SortedDescOrder([i \in DOMAIN catalog |-> catalog[i].passengers])
    IN  [r \in DOMAIN catalog |-> catalog[order[r]]]

(***************************************************************************)
(* Selection engine (app.py and app_cloud.py carry the same code).         *)
(***************************************************************************)
random_choice_none_on_empty(seq) == IF seq = <<>> THEN {None} ELSE Range(seq)

\* random.choice(seq): the set of values it can return; IndexError on [].
random_choice(seq) == IF seq = <<>> THEN {IndexError} ELSE Range(seq)

\* sorted_stations[n:] for n >= 0
SliceFrom(s, n) == SubSeq(s, n + 1, Len(s))
\* seq[:n] for n >= 0
SliceTo(s, n) == SubSeq(s, 1, IF n < Len(s) THEN n ELSE Len(s))

TopN == 5

available_stations_from4(catalog) ==
    SliceFrom(sorted_stations(catalog), TopN - 1)

available_stations(catalog) ==
    SliceFrom(sorted_stations(catalog), TopN)

selection_pool_one_more(catalog, level) ==
    LET available == available_stations(catalog)
    IN  IF level >= Len(available)
        THEN available
        ELSE SliceTo(available, level + 1)

\* the list handed to random.choice
selection_pool(catalog, level) ==
    LET available == available_stations(catalog)
    IN  IF level >= Len(available)
        THEN available
        ELSE SliceTo(available, level)

\* the set of values select_random_station can return (or raise)
select_random_station(catalog, level) ==
    random_choice(selection_pool(catalog, level))

get_top5_stations(catalog) ==
    SliceTo(sorted_stations(catalog), TopN)

(***************************************************************************)
(* Summary engine.  The distance of a result is in tenths of a kilometre.  *)
(***************************************************************************)
PerfectLimit == 5
GoodLimit == 20
OkLimit == 50

IsPerfect(d) == d < PerfectLimit
IsGoodOpenBelow(d) == PerfectLimit < d /\ d < GoodLimit
IsGood(d) == PerfectLimit <= d /\ d < GoodLimit
IsOk(d) == GoodLimit <= d /\ d < OkLimit
IsPoor(d) == d >= OkLimit

round_rating_closed(d) ==
    IF d <= PerfectLimit THEN "perfect"
    ELSE IF d <= GoodLimit THEN "good"
    ELSE IF d <= OkLimit THEN "ok"
    ELSE "poor"

\* the rating app_cloud.py shows for the distance of a round
round_rating(d) ==
    IF d < PerfectLimit THEN "perfect"
    ELSE IF d < GoodLimit THEN "good"
    ELSE IF d < OkLimit THEN "ok"
    ELSE "poor"

(***************************************************************************)
(* Python floats.  A float is an IEEE-754 double: a 53-bit significand     *)
(* and every operation rounded to the nearest float, ties to the even      *)
(* significand.  The model keeps the rounding rule and narrows the         *)
(* significand to MantissaBits bits.  A float is 0 or m * 2^e with         *)
(* 2^(MantissaBits-1) <= m < 2^MantissaBits, kept as [m, e]; the distance  *)
(* of a result is an integer below 2^MantissaBits, which is a float.       *)
(***************************************************************************)
MantissaBits == 6

RECURSIVE Pow2(_)
Pow2(k) == IF k = 0 THEN 1 ELSE 2 * Pow2(k - 1)

FloatZero == [m |-> 0, e |-> 0]

\* the value of the float a is FloatNum(a) / FloatDen(a)
FloatNum(a) == IF a.e >= 0 THEN a.m * Pow2(a.e) ELSE a.m
FloatDen(a) == IF a.e >= 0 THEN 1 ELSE Pow2(0 - a.e)

\* num / den rounded to the nearest integer, ties to even
RoundHalfEven(num, den) ==
    LET q == num \div den
        r == num % den
    IN  IF 2 * r < den THEN q
        ELSE IF 2 * r > den THEN q + 1
        ELSE IF q % 2 = 0 THEN q ELSE q + 1

\* num / (den * 2^e) as a fraction of integers
Scaled(num, den, e) ==
    IF e >= 0 THEN <<num, den * Pow2(e)>> ELSE <<num * Pow2(0 - e), den>>

\* the exponent that brings num / den > 0 into [2^(p-1), 2^p)
RECURSIVE FloatExp(_, _, _)
FloatExp(num, den, e) ==
    LET s == Scaled(num, den, e)
    IN  IF s[1] >= Pow2(MantissaBits) * s[2] THEN FloatExp(num, den, e + 1)
        ELSE IF s[1] < Pow2(MantissaBits - 1) * s[2] THEN FloatExp(num, den, e - 1)
        ELSE e

\* the float nearest to num / den >= 0
FloatOf(num, den) ==
    IF num = 0 THEN FloatZero
    ELSE LET e == FloatExp(num, den, 0)
             s == Scaled(num, den, e)
             m == RoundHalfEven(s[1], s[2])
         IN  IF m = Pow2(MantissaBits)
             THEN [m |-> Pow2(MantissaBits - 1), e |-> e + 1]
             ELSE [m |-> m, e |-> e]

\* a + b
float_add(a, b) ==
    FloatOf(FloatNum(a) * FloatDen(b) + FloatNum(b) * FloatDen(a),
            FloatDen(a) * FloatDen(b))

float_div_skipped(a, n) == a

\* a / n for an int n > 0
float_div(a, n) == FloatOf(FloatNum(a), FloatDen(a) * n)

\* a * n for an int n
float_mul(a, n) == FloatOf(FloatNum(a) * n, FloatDen(a))

\* a <= b
FloatLeq(a, b) == FloatNum(a) * FloatDen(b) <= FloatNum(b) * FloatDen(a)

\* sum(distances): 0 + d1 + d2 + ..., added from the left
RECURSIVE float_sum(_)
float_sum(distances) ==
    IF distances = <<>> THEN FloatZero
    ELSE float_add(float_sum(SubSeq(distances, 1, Len(distances) - 1)),
                   FloatOf(distances[Len(distances)], 1))

\* the dict of lines 163-178 for a result list; the code builds it for a
\* non-empty list only, for the empty list the statistics are 0 here
summary_dict(results) ==
    LET distances == [i \in DOMAIN results |-> results[i].distance]
    IN  [total_rounds |-> Len(results),
         best_distance |-> IF distances = <<>> THEN 0 ELSE Min(Range(distances)),
         worst_distance |-> IF distances = <<>> THEN 0 ELSE Max(Range(distances)),
         average_distance |-> IF distances = <<>> THEN FloatZero
                              ELSE float_div(float_sum(distances), Len(distances)),
         total_distance |-> float_sum(distances),
         perfect_guesses |-> Cardinality({i \in DOMAIN distances : IsPerfect(distances[i])}),
         good_guesses |-> Cardinality({i \in DOMAIN distances : IsGood(distances[i])}),
         ok_guesses |-> Cardinality({i \in DOMAIN distances : IsOk(distances[i])}),
         poor_guesses |-> Cardinality({i \in DOMAIN distances : IsPoor(distances[i])})]

calculate_game_summary_without_guard(results) == summary_dict(results)

calculate_game_summary(results) ==
    IF results = <<>>
    THEN None
    ELSE summary_dict(results)

(***************************************************************************)
(* Station aggregator (process_station_data.py).                           *)
(* A position is a tuple <<lon, lat>> in 1e-4 degree.  A geometry is None  *)
(* or [type, coordinates] with the nesting of GeoJSON; properties is a     *)
(* record that has a key only when the dict has it.                        *)
(***************************************************************************)
KANTO_BBOX == <<1393389, 354948, 1399349, 358284>>

is_in_kanto_range(lon, lat) ==
    /\ KANTO_BBOX[1] <= lon /\ lon <= KANTO_BBOX[3]
    /\ KANTO_BBOX[2] <= lat /\ lat <= KANTO_BBOX[4]

\* list.extend over a list of lists
RECURSIVE Flatten(_)
Flatten(ss) == IF ss = <<>> THEN <<>> ELSE ss[1] \o Flatten(Tail(ss))

extract_coordinates_first_part(geometry) ==
    IF geometry.type = "Point" THEN <<geometry.coordinates>>
    ELSE IF geometry.type \in {"MultiPoint", "LineString"} THEN geometry.coordinates
    ELSE IF geometry.type \in {"MultiLineString", "Polygon"}
         THEN geometry.coordinates[1]
    ELSE IF geometry.type = "MultiPolygon"
         THEN Flatten(geometry.coordinates[1])
    ELSE <<>>

\* lines 15-36, for a geometry that has a type
extract_coordinates(geometry) ==
    IF geometry.type = "Point" THEN <<geometry.coordinates>>
    ELSE IF geometry.type \in {"MultiPoint", "LineString"} THEN geometry.coordinates
    ELSE IF geometry.type \in {"MultiLineString", "Polygon"}
         THEN Flatten(geometry.coordinates)
    ELSE IF geometry.type = "MultiPolygon"
         THEN Flatten([i \in DOMAIN geometry.coordinates |->
                          Flatten(geometry.coordinates[i])])
    ELSE <<>>

\* dict.get(key, default)
PropGet(props, key, default) ==
    IF key \in DOMAIN props THEN props[key] ELSE default

\* the loop of lines 47-67 for one feature
in_kanto(feature) ==
    /\ feature.geometry # None
    /\ LET coords == extract_coordinates(feature.geometry)
       IN  \E i \in DOMAIN coords :
              /\ Len(coords[i]) >= 2
              /\ is_in_kanto_range(coords[i][1], coords[i][2])

RECURSIVE FilterKanto(_)
FilterKanto(fs) ==
    IF fs = <<>> THEN <<>>
    ELSE IF in_kanto(fs[1]) THEN <<fs[1]>> \o FilterKanto(Tail(fs))
    ELSE FilterKanto(Tail(fs))

station_name_of(station) == PropGet(station.properties, "S12_001", "")

\* the keys of station_groups in insertion order
RECURSIVE group_names(_)
group_names(members) ==
    IF members = <<>> THEN <<>>
    ELSE LET n == Len(members)
             before == group_names(SubSeq(members, 1, n - 1))
             station_name == station_name_of(members[n])
         IN  IF station_name = "" \/ station_name \in Range(before)
             THEN before
             ELSE Append(before, station_name)

\* station_groups[station_name]
RECURSIVE group_members(_, _)
group_members(members, station_name) ==
    IF members = <<>> THEN <<>>
    ELSE IF station_name_of(members[1]) = station_name
         THEN <<members[1]>> \o group_members(Tail(members), station_name)
         ELSE group_members(Tail(members), station_name)

RECURSIVE total_passengers_positive_only(_)
total_passengers_positive_only(members) ==
    IF members = <<>> THEN 0
    ELSE LET passengers == PropGet(members[1].properties, "S12_057", 0)
         IN  (IF passengers > 0 THEN passengers ELSE 0)
             + total_passengers_positive_only(Tail(members))

\* lines 89-92: the counts of the members are added up
RECURSIVE total_passengers_of(_)
total_passengers_of(members) ==
    IF members = <<>> THEN 0
    ELSE LET passengers == PropGet(members[1].properties, "S12_057", 0)
         IN  (IF passengers # 0 THEN passengers ELSE 0)
             + total_passengers_of(Tail(members))

RECURSIVE KeepPositions(_)
KeepPositions(coords) ==
    IF coords = <<>> THEN <<>>
    ELSE IF Len(coords[1]) >= 2 THEN <<coords[1]>> \o KeepPositions(Tail(coords))
    ELSE KeepPositions(Tail(coords))

RECURSIVE all_coords_of(_)
all_coords_of(members) ==
    IF members = <<>> THEN <<>>
    ELSE KeepPositions(extract_coordinates(members[1].geometry))
         \o all_coords_of(Tail(members))

RECURSIVE unique_coords_keeping_last(_)
unique_coords_keeping_last(all_coords) ==
    IF all_coords = <<>> THEN <<>>
    ELSE LET after == unique_coords_keeping_last(Tail(all_coords))
         IN  IF \E i \in DOMAIN after : after[i] = all_coords[1]
             THEN after
             ELSE <<all_coords[1]>> \o after

\* lines 101-104: keep the first occurrence of every coordinate
RECURSIVE unique_coords_of(_)
unique_coords_of(all_coords) ==
    IF all_coords = <<>> THEN <<>>
    ELSE LET n == Len(all_coords)
             before == unique_coords_of(SubSeq(all_coords, 1, n - 1))
         IN  IF \E i \in DOMAIN before : before[i] = all_coords[n]
             THEN before
             ELSE Append(before, all_coords[n])

is_emitted_nonnegative(unique_coords, total_passengers) ==
    unique_coords # <<>> /\ total_passengers >= 0

\* the test of line 106
is_emitted(unique_coords, total_passengers) ==
    unique_coords # <<>> /\ total_passengers > 0

integrated_station_counting_coords(station_name, members) ==
    LET unique_coords == unique_coords_of(all_coords_of(members))
    IN  [type |-> "Feature",
         properties |-> [station_name |-> station_name,
                         total_passengers |-> total_passengers_of(members),
                         station_count |-> Len(unique_coords),
                         original_stations |-> Len(unique_coords)],
         geometry |-> IF Len(unique_coords) = 1
                      THEN [type |-> "Point", coordinates |-> unique_coords[1]]
                      ELSE [type |-> "MultiPoint", coordinates |-> unique_coords]]

\* lines 107-127
integrated_station(station_name, members) ==
    LET unique_coords == unique_coords_of(all_coords_of(members))
    IN  [type |-> "Feature",
         properties |-> [station_name |-> station_name,
                         total_passengers |-> total_passengers_of(members),
                         station_count |-> Len(members),
                         original_stations |-> Len(members)],
         geometry |-> IF Len(unique_coords) = 1
                      THEN [type |-> "Point", coordinates |-> unique_coords[1]]
                      ELSE [type |-> "MultiPoint", coordinates |-> unique_coords]]

\* the loop of lines 84-129 over the groups names[1], names[2], ...
RECURSIVE integrate_groups(_, _)
integrate_groups(members, names) ==
    IF names = <<>> THEN <<>>
    ELSE LET group == group_members(members, names[1])
             rest == integrate_groups(members, Tail(names))
         IN  IF is_emitted(unique_coords_of(all_coords_of(group)),
                           total_passengers_of(group))
             THEN <<integrated_station(names[1], group)>> \o rest
             ELSE rest

sort_integrated_ascending(integrated) ==
    LET order == SortedDescOrder([i \in DOMAIN integrated |->
                                    0 - integrated[i].properties.total_passengers])
    IN  [r \in DOMAIN integrated |-> integrated[order[r]]]

\* integrated_stations.sort(key=total_passengers, reverse=True)
sort_integrated(integrated) ==
    LET order == SortedDescOrder([i \in DOMAIN integrated |->
                                    integrated[i].properties.total_passengers])
    IN  [r \in DOMAIN integrated |-> integrated[order[r]]]

\* geometry["type"] (line 19) raises KeyError for a geometry without type
extract_coordinates_raises(geometry) == "type" \notin DOMAIN geometry

\* the loop of lines 47-67 raises for the input list fs
filter_raises(fs) ==
    \E i \in DOMAIN fs :
       /\ fs[i].geometry # None
       /\ extract_coordinates_raises(fs[i].geometry)

\* station["properties"] (line 75) raises KeyError for a surviving feature
\* without properties
grouping_raises(members) ==
    \E k \in DOMAIN members : "properties" \notin DOMAIN members[k]

\* the run over the input list fs ends in an exception; the output file
\* is written at the end of the run only
process_station_data_raises(fs) ==
    filter_raises(fs) \/ grouping_raises(FilterKanto(fs))

\* the features written to the output file for the input list fs
process_station_data(fs) ==
    LET kanto == FilterKanto(fs)
    IN  sort_integrated(integrate_groups(kanto, group_names(kanto)))

(***************************************************************************)
(* Catalog loaders: load_stations of app.py and of app_cloud.py, applied   *)
(* to the feature list of the file process_station_data wrote.             *)
(***************************************************************************)
\* "lon, lat = position" raises ValueError unless the position has two
\* elements
unpack_raises(position) == Len(position) # 2

\* the coordinate app.py reads: lines 93-98
station_position(geometry) ==
    IF geometry.type = "Point" THEN geometry.coordinates
    ELSE geometry.coordinates[1]

\* the features app.py does not skip (line 97-98: continue)
RECURSIVE loadable_features(_)
loadable_features(catalog) ==
    IF catalog = <<>> THEN <<>>
    ELSE IF catalog[1].geometry.type \in {"Point", "MultiPoint"}
         THEN <<catalog[1]>> \o loadable_features(Tail(catalog))
         ELSE loadable_features(Tail(catalog))

\* load_stations of app.py; only FileNotFoundError is caught
load_stations_app(catalog) ==
    LET loadable == loadable_features(catalog)
    IN  IF \E i \in DOMAIN loadable :
              unpack_raises(station_position(loadable[i].geometry))
        THEN ValueError
        ELSE [returned |->
                [i \in DOMAIN loadable |->
                    [name |-> loadable[i].properties.station_name,
                     lat |-> station_position(loadable[i].geometry)[2],
                     lon |-> station_position(loadable[i].geometry)[1],
                     passengers |-> loadable[i].properties.total_passengers,
                     station_count |-> loadable[i].properties.station_count]]]

\* the coordinate app_cloud.py reads: lines 97-100
station_position_cloud(geometry) ==
    IF geometry.type = "MultiPoint" THEN geometry.coordinates[1]
    ELSE geometry.coordinates

\* a feature for which lines 93-109 of app_cloud.py raise (KeyError for a
\* property that is not there, IndexError for a short position)
load_station_cloud_raises(feature) ==
    \/ Len(station_position_cloud(feature.geometry)) < 2
    \/ ~({"name", "passengers", "station_count"} \subseteq DOMAIN feature.properties)

\* load_stations of app_cloud.py; every exception is caught and None
\* returned
load_stations_cloud(catalog) ==
    IF \E i \in DOMAIN catalog : load_station_cloud_raises(catalog[i])
    THEN None
    ELSE [returned |->
            [i \in DOMAIN catalog |->
                [name |-> catalog[i].properties.name,
                 passengers |-> catalog[i].properties.passengers,
                 station_count |-> catalog[i].properties.station_count,
                 lat |-> station_position_cloud(catalog[i].geometry)[2],
                 lon |-> station_position_cloud(catalog[i].geometry)[1]]]]

(***************************************************************************)
(* Distance engine.  On one meridian the haversine term                    *)
(* a = sin(dlat/2)^2 + cos(lat1)*cos(lat2)*sin(dlon/2)^2 is sin(dlat/2)^2, *)
(* so the distance is R * |dlat|; latitudes are kept in the unit in which  *)
(* R * 1 is a tenth of a kilometre.  Positions of the session model all    *)
(* lie on Meridian.                                                        *)
(***************************************************************************)
Meridian == 1397671

calculate_distance(lat1, lon1, lat2, lon2) ==
    IF lat2 >= lat1 THEN lat2 - lat1 ELSE lat1 - lat2

(***************************************************************************)
(* Session state machine (main of app.py and app_cloud.py).  Every action  *)
(* is one user interaction: the script run in which the widget reports     *)
(* the interaction, and the run that st.rerun() starts after it.           *)
(*                                                                         *)
(* A game_history entry stores game_results itself in app_cloud.py and a   *)
(* copy of it in app.py.  The field "shared" of an entry says that its     *)
(* results list is the list object session_state.game_results still        *)
(* refers to: an append to game_results is then seen through the entry,    *)
(* and rebinding game_results to a new list ends the sharing.              *)
(***************************************************************************)
Screen ==
    IF ~game_started /\ ~show_summary THEN "start"
    ELSE IF show_summary THEN "summary"
    ELSE "game"

SidebarShown == game_started \/ show_summary

\* the threshold the start screen shows for a difficulty_level below the
\* number of stations (lines 362-365 of app.py, 344-347 of app_cloud.py)
min_passengers(catalog, level) == sorted_stations(catalog)[level].passengers

\* the values of the difficulty selectbox
difficulty_options(catalog) == {50, 100, 200, 500, Len(catalog)}

prepend_result(results, result) == <<result>> \o results

\* game_results.append(result)
append_result(results, result) == Append(results, result)

\* the history as seen after game_results.append(result)
history_after_append(history, results) ==
    [i \in DOMAIN history |->
        IF history[i].shared
        THEN [history[i] EXCEPT !.results = results]
        ELSE history[i]]

\* the history as seen after game_results = []
history_after_rebind(history) ==
    [i \in DOMAIN history |-> [history[i] EXCEPT !.shared = FALSE]]

\* the entry the summary screen appends (lines 450-457 of app.py,
\* 433-440 of app_cloud.py); the date is left out
history_entry(front_end, results, summary, rounds, level) ==
    [total_rounds |-> IF front_end = "app" THEN rounds ELSE summary.total_rounds,
     difficulty |-> level,
     results |-> results,
     summary |-> summary,
     shared |-> front_end = "cloud"]

\* what one script run of the summary screen does to game_history
history_after_summary(front_end, history, results, rounds, level) ==
    LET summary == calculate_game_summary(results)
    IN  IF summary # None
        THEN Append(history, history_entry(front_end, results, summary, rounds, level))
        ELSE history

\* the summary screen appends on every run; the model stops at MaxHistory
SummaryRunAllowed(history) ==
    game_results # <<>> => Len(history) < MaxHistory

\* the result dict of a submitted guess
round_result(station, location, round_number) ==
    [round |-> round_number,
     station |-> station,
     passengers |-> station.passengers,
     guessed_lat |-> location.lat,
     guessed_lon |-> location.lon,
     distance |-> calculate_distance(station.lat, station.lon,
                                     location.lat, location.lon)]

\* the options the player of the model picks from: the default and the
\* last one ("all stations")
DifficultyChoices(catalog) == {100, Len(catalog)}

\* the slider or the selectbox of the start screen is moved
ChangeSettings ==
    /\ Screen = "start"
    /\ \E rounds \in 1..MaxRounds : total_rounds' = rounds
    /\ \E level \in difficulty_options(stations) \cap DifficultyChoices(stations) :
          difficulty_level' = level
    /\ UNCHANGED <<app, stations, current_station, game_started, score, round,
                   clicked_location, game_results, show_result, current_result,
                   game_history, show_summary>>
    /\ UNCHANGED vars_other

\* "game start" button; select_random_station may raise after
\* game_started was set
StartGame ==
    /\ Screen = "start"
    /\ total_rounds \in 1..MaxRounds
    /\ game_started' = TRUE
    /\ \E choice \in select_random_station(stations, difficulty_level) :
          IF choice = IndexError
          THEN UNCHANGED <<current_station, round, score, game_results,
                           clicked_location, show_result, current_result,
                           game_history>>
          ELSE /\ current_station' = choice
               /\ round' = 1
               /\ score' = 0
               /\ game_results' = <<>>
               /\ game_history' = history_after_rebind(game_history)
               /\ clicked_location' = None
               /\ show_result' = FALSE
               /\ current_result' = None
    /\ UNCHANGED <<app, stations, total_rounds, difficulty_level, show_summary>>
    /\ UNCHANGED vars_other

\* the latitudes the player can click: beside the first station and far off
ClickLats == {0, OkLimit + MaxGameCatalog}

\* a click on the map while a guess is awaited
ClickMap ==
    /\ Screen = "game"
    /\ current_station # None
    /\ ~show_result
    /\ \E click \in ClickLats :
          clicked_location' = [lat |-> click, lon |-> Meridian]
    /\ UNCHANGED <<app, stations, current_station, game_started, score, round,
                   total_rounds, game_results, show_result, current_result,
                   difficulty_level, game_history, show_summary>>
    /\ UNCHANGED vars_other

\* the answer button offered whenever a position is clicked, result shown
\* or not
AnswerOffered_while_result_shown ==
    /\ Screen = "game"
    /\ current_station # None
    /\ clicked_location # None

\* the answer button is offered
AnswerOffered ==
    /\ Screen = "game"
    /\ current_station # None
    /\ IF app = "app"
       THEN ~show_result
       ELSE ~(show_result /\ current_result # None)
    /\ clicked_location # None

\* "answer with this position" button
SubmitGuess ==
    /\ AnswerOffered
    /\ LET result == round_result(current_station, clicked_location, round)
       IN  /\ game_results' = append_result(game_results, result)
           /\ game_history' = history_after_append(game_history, game_results')
           /\ current_result' = result
           /\ show_result' = TRUE
    /\ UNCHANGED <<app, stations, current_station, game_started, score, round,
                   total_rounds, clicked_location, difficulty_level,
                   show_summary>>
    /\ UNCHANGED vars_other

\* the result of the round is shown with its button
ResultShown ==
    /\ Screen = "game"
    /\ current_station # None
    /\ IF app = "app"
       THEN show_result
       ELSE show_result /\ current_result # None

\* the "next round" button offered after the last round too
NextRound_after_last_round ==
    /\ ResultShown
    /\ round' = round + 1
    /\ \E choice \in select_random_station(stations, difficulty_level) :
          /\ choice # IndexError
          /\ current_station' = choice
    /\ clicked_location' = None
    /\ show_result' = FALSE
    /\ current_result' = None
    /\ UNCHANGED <<app, stations, game_started, score, total_rounds,
                   game_results, difficulty_level, game_history, show_summary>>
    /\ UNCHANGED vars_other

\* "next round" button while rounds remain
NextRound ==
    /\ ResultShown
    /\ round < total_rounds
    /\ round' = round + 1
    /\ \E choice \in select_random_station(stations, difficulty_level) :
          IF choice = IndexError
          THEN UNCHANGED <<current_station, clicked_location, show_result,
                           current_result>>
          ELSE /\ current_station' = choice
               /\ clicked_location' = None
               /\ show_result' = FALSE
               /\ current_result' = None
    /\ UNCHANGED <<app, stations, game_started, score, total_rounds,
                   game_results, difficulty_level, game_history, show_summary>>
    /\ UNCHANGED vars_other

\* the button of the last round: "next round" in app.py, "finish" in
\* app_cloud.py; the rerun shows the summary screen
FinishGame ==
    /\ ResultShown
    /\ ~(round < total_rounds)
    /\ SummaryRunAllowed(game_history)
    /\ game_started' = (IF app = "app" THEN FALSE ELSE game_started)
    /\ show_summary' = TRUE
    /\ game_history' = history_after_summary(app, game_history, game_results,
                                             total_rounds, difficulty_level)
    /\ UNCHANGED <<app, stations, current_station, score, round, total_rounds,
                   clicked_location, game_results, show_result, current_result,
                   difficulty_level>>
    /\ UNCHANGED vars_other

\* "new game" button of the sidebar; the rerun shows the summary screen
\* if show_summary is still set
SidebarNewGame ==
    /\ SidebarShown
    /\ game_started
    /\ game_started' = FALSE
    /\ current_station' = None
    /\ round' = 1
    /\ score' = 0
    /\ game_results' = <<>>
    /\ clicked_location' = None
    /\ show_result' = FALSE
    /\ current_result' = None
    /\ game_history' =
          LET history == history_after_rebind(game_history)
          IN  IF show_summary
              THEN history_after_summary(app, history, game_results',
                                         total_rounds, difficulty_level)
              ELSE history
    /\ UNCHANGED <<app, stations, total_rounds, difficulty_level, show_summary>>
    /\ UNCHANGED vars_other

\* "clear history" button of the sidebar; the rerun shows the screen again
ClearHistory ==
    /\ SidebarShown
    /\ game_history # <<>>
    /\ game_history' =
          IF Screen = "summary"
          THEN history_after_summary(app, <<>>, game_results,
                                     total_rounds, difficulty_level)
          ELSE <<>>
    /\ UNCHANGED <<app, stations, current_station, game_started, score, round,
                   total_rounds, clicked_location, game_results, show_result,
                   current_result, difficulty_level, show_summary>>
    /\ UNCHANGED vars_other

\* "start a new game" button of the summary screen: the run shows the
\* summary (and appends to the history) before it reaches the button
SummaryNewGame ==
    /\ Screen = "summary"
    /\ SummaryRunAllowed(game_history)
    /\ game_history' =
          history_after_rebind(
             history_after_summary(app, game_history, game_results,
                                   total_rounds, difficulty_level))
    /\ show_summary' = FALSE
    /\ game_results' = <<>>
    /\ round' = 1
    /\ score' = 0
    /\ clicked_location' = None
    /\ show_result' = FALSE
    /\ current_result' = None
    /\ game_started' = (IF app = "app" THEN game_started ELSE FALSE)
    /\ current_station' = (IF app = "app" THEN current_station ELSE None)
    /\ UNCHANGED <<app, stations, total_rounds, difficulty_level>>
    /\ UNCHANGED vars_other

\* a script run without a button press while the summary is shown
RerunSummary ==
    /\ Screen = "summary"
    /\ game_results # <<>>
    /\ SummaryRunAllowed(game_history)
    /\ game_history' = history_after_summary(app, game_history, game_results,
                                             total_rounds, difficulty_level)
    /\ UNCHANGED <<app, stations, current_station, game_started, score, round,
                   total_rounds, clicked_location, game_results, show_result,
                   current_result, difficulty_level, show_summary>>
    /\ UNCHANGED vars_other

(***************************************************************************)
(* Inputs of the function-level specifications.                            *)
(***************************************************************************)
\* a catalog of n stations with distinct names 1..n, in file order
\* and on one meridian, station i at latitude i
Catalog(passengers) ==
    [i \in DOMAIN passengers |->
        [name |-> i, passengers |-> passengers[i], lat |-> i, lon |-> Meridian]]

\* the catalogs a session can load: 5 .. MaxGameCatalog stations, not in
\* passenger order and with ties
GameCatalogs ==
    {Catalog([i \in 1..n |-> 1 + (i % 2)]) : n \in TopN..MaxGameCatalog}

\* distances on and around the bucket thresholds
DistanceValues ==
    {0, PerfectLimit - 1, PerfectLimit, GoodLimit - 1, GoodLimit,
     OkLimit - 1, OkLimit, OkLimit + 1}

IdleGame ==
    /\ app = "app"
    /\ stations = <<>>
    /\ current_station = None
    /\ game_started = FALSE
    /\ score = 0
    /\ round = 1
    /\ total_rounds = 5
    /\ clicked_location = None
    /\ game_results = <<>>
    /\ show_result = FALSE
    /\ current_result = None
    /\ difficulty_level = 100
    /\ game_history = <<>>
    /\ show_summary = FALSE

IdleSel ==
    /\ sel_stations = <<>>
    /\ sel_difficulty = 0
    /\ sel_result = NotCalled

IdleSum ==
    /\ sum_results = <<>>
    /\ sum_summary = NotCalled

IdleProc ==
    /\ features = <<>>
    /\ kanto_stations = <<>>
    /\ integrated_stations = <<>>
    /\ proc_pc = "idle"

IdleLoad ==
    /\ loaded_app = NotCalled
    /\ loaded_cloud = NotCalled

IdleIter ==
    /\ iter_feature = None
    /\ iter_yielded = <<>>

IdleMain ==
    /\ prefecture_features = <<>>
    /\ railroad_features = <<>>
    /\ outdir_created = FALSE
    /\ kanto_prefectures = <<>>
    /\ kanto_railroads = <<>>
    /\ tiles_written = {}
    /\ gen_pc = "idle"

IdleGen == IdleMain /\ IdleIter

\* positions: the south-west corner of the box, two inside, one just west
PosCorner == <<1393389, 354948>>
PosTokyo == <<1397671, 356812>>
PosShinjuku == <<1397006, 356896>>
PosOutside == <<1393388, 354948>>

\* the geometries source features are drawn from
GeometryList ==
    << None,
       [type |-> "Point", coordinates |-> PosCorner],
       [type |-> "Point", coordinates |-> PosTokyo],
       [type |-> "Point", coordinates |-> PosOutside],
       [type |-> "MultiPoint", coordinates |-> <<PosOutside, PosTokyo>>],
       [type |-> "LineString", coordinates |-> <<PosShinjuku, PosTokyo>>] >>

StationNames == {"", "A", "B"}

\* S12_057: absent, or a count
NoCount == 0 - 2
PassengerCounts == {NoCount} \cup ((0 - 1)..MaxFeaturePassengers)

SourceFeature(g, station_name, count) ==
    [type |-> "Feature",
     geometry |-> GeometryList[g],
     properties |-> IF count = NoCount
                    THEN [S12_001 |-> station_name]
                    ELSE [S12_001 |-> station_name, S12_057 |-> count]]

(***************************************************************************)
(* Spec: one browser session of either front-end, from the state after     *)
(* the first script run (session defaults set, stations loaded).           *)
(***************************************************************************)
Init ==
    /\ app \in {"app", "cloud"}
    /\ stations \in GameCatalogs
    /\ current_station = None
    /\ game_started = FALSE
    /\ score = 0
    /\ round = 1
    /\ total_rounds = 5
    /\ clicked_location = None
    /\ game_results = <<>>
    /\ show_result = FALSE
    /\ current_result = None
    /\ difficulty_level = 100
    /\ game_history = <<>>
    /\ show_summary = FALSE
    /\ IdleSel
    /\ IdleSum
    /\ IdleProc
    /\ IdleLoad
    /\ IdleGen

Next ==
    \/ ChangeSettings
    \/ StartGame
    \/ ClickMap
    \/ SubmitGuess
    \/ NextRound
    \/ FinishGame
    \/ SidebarNewGame
    \/ ClearHistory
    \/ SummaryNewGame
    \/ RerunSummary

Spec == Init /\ [][Next]_vars

(***************************************************************************)
(* SpecPlay: one game played to its end.  The player uses the start        *)
(* screen and the game screen only and keeps clicking the map, answering   *)
(* and pressing the button under the result: an offered button is pressed  *)
(* eventually (weak fairness of the four game-screen actions).             *)
(***************************************************************************)
\* the press of the last round's button, reduced to its guard and the
\* switch to the summary screen.  The steps of FinishGame are exactly the
\* steps of FinishPressed that change show_summary
\* (FinishPressedIsFinishGame), so weak fairness of the one is weak fairness
\* of the other, and ENABLED of this one does not compute the statistics of
\* the summary.
FinishPressed ==
    /\ ResultShown
    /\ ~(round < total_rounds)
    /\ SummaryRunAllowed(game_history)
    /\ show_summary' = TRUE

FinishPressedIsFinishGame ==
    [][FinishGame <=> (FinishPressed /\ show_summary' # show_summary)]_vars

NextPlay ==
    \/ ChangeSettings
    \/ StartGame
    \/ ClickMap
    \/ SubmitGuess
    \/ NextRound
    \/ FinishGame

SpecPlay ==
    /\ Init
    /\ [][NextPlay]_vars
    /\ WF_vars(ClickMap)
    /\ WF_vars(SubmitGuess)
    /\ WF_vars(NextRound)
    /\ WF_show_summary(FinishPressed)

(***************************************************************************)
(* SpecSelect: select_random_station applied to every bounded catalog.     *)
(***************************************************************************)
InitSelect ==
    /\ \E n \in MinCatalog..MaxCatalog :
         \E passengers \in [1..n -> 1..MaxPassengers] :
            sel_stations = Catalog(passengers)
    /\ sel_difficulty \in 1..MaxDifficulty
    /\ sel_result = NotCalled
    /\ IdleSum
    /\ IdleProc
    /\ IdleLoad
    /\ IdleGen
    /\ IdleGame

CallSelect ==
    /\ sel_result = NotCalled
    /\ sel_result' \in select_random_station(sel_stations, sel_difficulty)
    /\ UNCHANGED <<sel_stations, sel_difficulty>>
    /\ UNCHANGED <<vars_sum, vars_proc, vars_load, vars_gen, vars_game>>

NextSelect == CallSelect

SpecSelect == InitSelect /\ [][NextSelect]_vars

(***************************************************************************)
(* SpecSummary: calculate_game_summary applied to every bounded result     *)
(* sequence.                                                               *)
(***************************************************************************)
InitSummary ==
    /\ \E n \in 0..MaxResults :
         \E d \in [1..n -> DistanceValues] :
            sum_results = [i \in 1..n |-> [round |-> i, distance |-> d[i]]]
    /\ sum_summary = NotCalled
    /\ IdleSel
    /\ IdleProc
    /\ IdleLoad
    /\ IdleGen
    /\ IdleGame

CallSummary ==
    /\ sum_summary = NotCalled
    /\ sum_summary' = calculate_game_summary(sum_results)
    /\ UNCHANGED sum_results
    /\ UNCHANGED <<vars_sel, vars_proc, vars_load, vars_gen, vars_game>>

NextSummary == CallSummary

SpecSummary == InitSummary /\ [][NextSummary]_vars

(***************************************************************************)
(* SpecProcess: one run of process_station_data over every bounded input   *)
(* file.                                                                   *)
(***************************************************************************)
InitProcess ==
    /\ \E n \in 0..MaxFeatures :
         \E g \in [1..n -> DOMAIN GeometryList] :
           \E nm \in [1..n -> StationNames] :
             \E c \in [1..n -> PassengerCounts] :
                features = [i \in 1..n |-> SourceFeature(g[i], nm[i], c[i])]
    /\ kanto_stations = <<>>
    /\ integrated_stations = <<>>
    /\ proc_pc = "start"
    /\ IdleSel
    /\ IdleSum
    /\ IdleLoad
    /\ IdleGen
    /\ IdleGame

RunProcess ==
    /\ proc_pc = "start"
    /\ IF process_station_data_raises(features)
       THEN /\ proc_pc' = "raised"
            /\ UNCHANGED <<kanto_stations, integrated_stations>>
       ELSE /\ kanto_stations' = FilterKanto(features)
            /\ integrated_stations' = process_station_data(features)
            /\ proc_pc' = "done"
    /\ UNCHANGED features
    /\ UNCHANGED <<vars_sel, vars_sum, vars_load, vars_gen, vars_game>>

NextProcess == RunProcess

SpecProcess == InitProcess /\ [][NextProcess]_vars

(***************************************************************************)
(* SpecFormats: one run of process_station_data over input files with      *)
(* geometries of every type and with malformed features, and the two       *)
(* front-ends loading the file it wrote.                                   *)
(***************************************************************************)
\* positions: far outside, the north-east corner of the box, just north of
\* it, with an elevation, and one of a single number
PosFar == <<1300000, 340000>>
PosMaxCorner == <<1399349, 358284>>
PosBeyond == <<1399349, 358285>>
PosElevated == <<1397671, 356812, 30>>
PosShort == <<1397671>>

RingOutside == <<PosOutside, PosFar, PosBeyond, PosOutside>>
RingInside == <<PosFar, PosShinjuku, PosBeyond, PosFar>>

FormatGeometryList ==
    << None,
       [type |-> "Point", coordinates |-> PosTokyo],
       [type |-> "Point", coordinates |-> PosMaxCorner],
       [type |-> "Point", coordinates |-> PosBeyond],
       [type |-> "Point", coordinates |-> PosElevated],
       [type |-> "Point", coordinates |-> PosShort],
       [type |-> "Polygon", coordinates |-> <<RingOutside, RingInside>>],
       [type |-> "Polygon", coordinates |-> <<RingOutside>>],
       [type |-> "MultiLineString",
        coordinates |-> << <<PosOutside, PosFar>>, <<PosFar, PosTokyo>> >>],
       [type |-> "MultiPolygon",
        coordinates |-> << <<RingOutside>>, <<RingOutside, RingInside>> >>],
       [type |-> "GeometryCollection",
        geometries |-> << [type |-> "Point", coordinates |-> PosTokyo] >>],
       [coordinates |-> PosTokyo] >>

FormatNames == {"A", "B"}

\* a feature of the input file: with properties, or without when
\* station_name is ""
FormatFeature(g, station_name) ==
    IF station_name = ""
    THEN [type |-> "Feature", geometry |-> FormatGeometryList[g]]
    ELSE [type |-> "Feature",
          geometry |-> FormatGeometryList[g],
          properties |-> [S12_001 |-> station_name, S12_057 |-> 1]]

InitFormats ==
    /\ \E n \in 0..MaxFormatFeatures :
         \E g \in [1..n -> DOMAIN FormatGeometryList] :
           \E nm \in [1..n -> FormatNames \cup {""}] :
              features = [i \in 1..n |-> FormatFeature(g[i], nm[i])]
    /\ kanto_stations = <<>>
    /\ integrated_stations = <<>>
    /\ proc_pc = "start"
    /\ IdleLoad
    /\ IdleGen
    /\ IdleSel
    /\ IdleSum
    /\ IdleGame

\* app.py loads the file of a finished run
LoadStationsApp ==
    /\ proc_pc = "done"
    /\ loaded_app = NotCalled
    /\ loaded_app' = load_stations_app(integrated_stations)
    /\ UNCHANGED <<loaded_cloud, vars_proc, vars_gen, vars_sel, vars_sum, vars_game>>

\* app_cloud.py loads the file of a finished run
LoadStationsCloud ==
    /\ proc_pc = "done"
    /\ loaded_cloud = NotCalled
    /\ loaded_cloud' = load_stations_cloud(integrated_stations)
    /\ UNCHANGED <<loaded_app, vars_proc, vars_gen, vars_sel, vars_sum, vars_game>>

NextFormats == RunProcess \/ LoadStationsApp \/ LoadStationsCloud

SpecFormats == InitFormats /\ [][NextFormats]_vars

(***************************************************************************)
(* Tile generator (kanto_xyz_generator.py).  GenerateTiles is one run of   *)
(* main over the two input files.  A length on a tile is counted in units  *)
(* of 1/3600000 of the tile's side, in which a longitude in 1e-4 degree    *)
(* scales by 2^z without a fraction: the 256 pixels of TILE_SIZE are       *)
(* 3600000 units and the 32 pixels of the visibility margin are 450000.    *)
(* A saved tile file is [z, x, y, image]; the image is the list of the     *)
(* ImageDraw calls made on it, in the order they were made.                *)
(***************************************************************************)
MinZoom == 6

\* the value of minx for a feature without coordinates (1e9)
BboxUnset == 2000000000

\* 256 pixels
TILE_SIZE == 3600000

\* the 32 pixels around the tile of the visibility tests
TileMargin == 450000

\* the colours of the two layers (defaults of the command line)
prefecture_fill == "#e6f3ff"
prefecture_line == "#4a90e2"
railroad_line == "#ff6b6b"

MultiBase_unchanged(gtype) == gtype

MultiBase(gtype) ==
    IF gtype = "MultiPoint" THEN "Point"
    ELSE IF gtype = "MultiLineString" THEN "LineString"
    ELSE "Polygon"

\* feature.get("geometry") or feature
geometry_of(feature) ==
    IF "geometry" \in DOMAIN feature /\ feature.geometry # None
    THEN feature.geometry
    ELSE feature

\* the (geom_type, coordinates) pairs iter_geoms yields for a feature or a
\* geometry
RECURSIVE iter_geoms(_)
iter_geoms(feature) ==
    LET geom == geometry_of(feature)
        coords == IF "coordinates" \in DOMAIN geom THEN geom.coordinates ELSE None
        geometries == IF "geometries" \in DOMAIN geom THEN geom.geometries ELSE <<>>
    IN  IF geom.type = "GeometryCollection"
        THEN Flatten([i \in DOMAIN geometries |-> iter_geoms(geometries[i])])
        ELSE IF geom.type \in {"MultiPoint", "MultiLineString", "MultiPolygon"}
        THEN [i \in DOMAIN coords |->
                 [gtype |-> MultiBase(geom.type), coords |-> coords[i]]]
        ELSE <<[gtype |-> geom.type, coords |-> coords]>>

in_generator_bbox_open(position) ==
    /\ KANTO_BBOX[1] < position[1] /\ position[1] < KANTO_BBOX[3]
    /\ KANTO_BBOX[2] < position[2] /\ position[2] < KANTO_BBOX[4]

\* the test of lines 113 and 130
in_generator_bbox(position) ==
    /\ KANTO_BBOX[1] <= position[1] /\ position[1] <= KANTO_BBOX[3]
    /\ KANTO_BBOX[2] <= position[2] /\ position[2] <= KANTO_BBOX[4]

is_kanto_prefecture(feature) ==
    /\ feature.geometry # None
    /\ LET parts == iter_geoms(feature.geometry)
       IN  \E p \in DOMAIN parts :
              /\ parts[p].gtype = "Polygon"
              /\ \E r \in DOMAIN parts[p].coords :
                    \E v \in DOMAIN parts[p].coords[r] :
                       in_generator_bbox(parts[p].coords[r][v])

is_kanto_railroad(feature) ==
    /\ feature.geometry # None
    /\ LET parts == iter_geoms(feature.geometry)
       IN  \E p \in DOMAIN parts :
              /\ parts[p].gtype = "LineString"
              /\ \E v \in DOMAIN parts[p].coords :
                    in_generator_bbox(parts[p].coords[v])

\* the list comprehension of lines 145-149 and 157-161
RECURSIVE kanto_prefectures_of(_)
kanto_prefectures_of(fs) ==
    IF fs = <<>> THEN <<>>
    ELSE IF is_kanto_prefecture(fs[1])
         THEN <<fs[1]>> \o kanto_prefectures_of(Tail(fs))
         ELSE kanto_prefectures_of(Tail(fs))

RECURSIVE kanto_railroads_of(_)
kanto_railroads_of(fs) ==
    IF fs = <<>> THEN <<>>
    ELSE IF is_kanto_railroad(fs[1])
         THEN <<fs[1]>> \o kanto_railroads_of(Tail(fs))
         ELSE kanto_railroads_of(Tail(fs))

\* the positions bbox_of_feature looks at in one (geom_type, coordinates)
part_positions(part) ==
    IF part.gtype = "Point" THEN {part.coords}
    ELSE IF part.gtype = "LineString" THEN Range(part.coords)
    ELSE IF part.gtype = "Polygon"
         THEN UNION {Range(part.coords[r]) : r \in DOMAIN part.coords}
    ELSE {}

bbox_of_feature(feat) ==
    LET parts == iter_geoms(feat.geometry)
        positions == UNION {part_positions(parts[p]) : p \in DOMAIN parts}
    IN  IF positions = {}
        THEN <<BboxUnset, BboxUnset, 0 - BboxUnset, 0 - BboxUnset>>
        ELSE <<Min({v[1] : v \in positions}), Min({v[2] : v \in positions}),
               Max({v[1] : v \in positions}), Max({v[2] : v \in positions})>>

\* lines 185-189
RECURSIVE all_bboxes_of(_)
all_bboxes_of(feats) ==
    IF feats = <<>> THEN <<>>
    ELSE LET bbox == bbox_of_feature(feats[1])
         IN  IF bbox[1] # BboxUnset
             THEN <<bbox>> \o all_bboxes_of(Tail(feats))
             ELSE all_bboxes_of(Tail(feats))

\* line 49 for the latitudes of the model, at zoom 0 and in units of
\* 1/3600000 of the height of the world:
\* (0.5 - log((1 + siny) / (1 - siny)) / (4 pi)) * 3600000, rounded to the
\* nearest unit
mercator_y(lat) ==
    CASE lat = 340000 -> 1438087
      [] lat = 350000 -> 1425952
      [] lat = 354948 -> 1419893
      [] lat = 356812 -> 1417601
      [] lat = 356896 -> 1417498
      [] lat = 358284 -> 1415787
      [] lat = 358285 -> 1415786
      [] lat = 360000 -> 1413669

\* global pixel coordinates (x, y) of a position at zoom z
lonlat_to_global_pixel(position, z) ==
    <<(position[1] + 1800000) * Pow2(z), mercator_y(position[2]) * Pow2(z)>>

to_tile_local_xy(position, z, x_tile, y_tile) ==
    LET g == lonlat_to_global_pixel(position, z)
    IN  <<g[1] - x_tile * TILE_SIZE, g[2] - y_tile * TILE_SIZE>>

\* the column of the tile of zoom z that holds the longitude lon
tile_column(lon, z) == ((lon + 1800000) * Pow2(z)) \div 3600000

\* the row of the tile of zoom z that holds the latitude lat
tile_row(lat, z) == (mercator_y(lat) * Pow2(z)) \div TILE_SIZE

\* the tiles of mercantile.tiles(minlon, minlat, maxlon, maxlat, [z])
tiles_of(minlon, minlat, maxlon, maxlat, z) ==
    {[z |-> z, x |-> x, y |-> y] :
        x \in tile_column(minlon, z)..tile_column(maxlon, z),
        y \in tile_row(maxlat, z)..tile_row(minlat, z)}

\* the vertices of a ring that lines 235-238 keep
RECURSIVE filtered_ring_of(_)
filtered_ring_of(ring) ==
    IF ring = <<>> THEN <<>>
    ELSE IF in_generator_bbox(ring[1])
         THEN <<ring[1]>> \o filtered_ring_of(Tail(ring))
         ELSE filtered_ring_of(Tail(ring))

\* filtered_rings of lines 233-240: the rings that keep 3 vertices or more
RECURSIVE filtered_rings_of(_)
filtered_rings_of(coords) ==
    IF coords = <<>> THEN <<>>
    ELSE LET filtered_ring == filtered_ring_of(coords[1])
         IN  IF Len(filtered_ring) >= 3
             THEN <<filtered_ring>> \o filtered_rings_of(Tail(coords))
             ELSE filtered_rings_of(Tail(coords))

\* [to_tile_local_xy(lon, lat, z_, x, y) for lon, lat in ring]
ring_pts_of(ring, tile) ==
    [i \in DOMAIN ring |-> to_tile_local_xy(ring[i], tile.z, tile.x, tile.y)]

\* the visibility test of lines 249 and 260
is_on_tile(pts) ==
    \E i \in DOMAIN pts :
       /\ 0 - TileMargin <= pts[i][1] /\ pts[i][1] <= TILE_SIZE + TileMargin
       /\ 0 - TileMargin <= pts[i][2] /\ pts[i][2] <= TILE_SIZE + TileMargin

\* the call of draw.line, made for 2 points or more
draw_line(pts, color) ==
    IF Len(pts) >= 2
    THEN <<[op |-> "line", pts |-> pts, fill |-> color]>>
    ELSE <<>>

\* the calls of draw_polygon: the fill of rings[0], then the outline of
\* rings[0] and of each of rings[1:]
draw_polygon(rings, fill_color, line_color) ==
    IF Len(rings) = 0 THEN <<>>
    ELSE <<[op |-> "polygon", pts |-> rings[1], fill |-> fill_color]>>
         \o Flatten([r \in DOMAIN rings |-> draw_line(rings[r], line_color)])

\* the draw calls of lines 231-250 for one Polygon part on one tile
polygon_draws(coords, tile) ==
    LET filtered_rings == filtered_rings_of(coords)
        rings_px == [r \in DOMAIN filtered_rings |->
                        ring_pts_of(filtered_rings[r], tile)]
    IN  IF Len(filtered_rings) > 0 /\ is_on_tile(rings_px[1])
        THEN draw_polygon(rings_px, prefecture_fill, prefecture_line)
        ELSE <<>>

\* the draw calls of lines 257-261 for one LineString part on one tile
line_draws(coords, tile) ==
    LET pts == ring_pts_of(coords, tile)
    IN  IF is_on_tile(pts) THEN draw_line(pts, railroad_line) ELSE <<>>

\* the prefecture layer of a tile (lines 224-250)
prefecture_layer(prefectures, tile) ==
    Flatten([f \in DOMAIN prefectures |->
       LET parts == iter_geoms(prefectures[f])
       IN  Flatten([p \in DOMAIN parts |->
              IF parts[p].gtype = "Polygon"
              THEN polygon_draws(parts[p].coords, tile)
              ELSE <<>>])])

\* the railroad layer of a tile (lines 252-261)
railroad_layer(railroads, tile) ==
    Flatten([f \in DOMAIN railroads |->
       LET parts == iter_geoms(railroads[f])
       IN  Flatten([p \in DOMAIN parts |->
              IF parts[p].gtype = "LineString"
              THEN line_draws(parts[p].coords, tile)
              ELSE <<>>])])

tile_image_railroads_first(prefectures, railroads, tile) ==
    railroad_layer(railroads, tile) \o prefecture_layer(prefectures, tile)

\* the draw calls on the image of one tile, in the order of lines 224-261
tile_image(prefectures, railroads, tile) ==
    prefecture_layer(prefectures, tile) \o railroad_layer(railroads, tile)

outdir_made_before_the_test(all_bboxes) == TRUE

\* outdir.mkdir (line 203) is reached unless main returned at line 193
outdir_made(all_bboxes) == all_bboxes # <<>>

\* the tile files the zoom loop of lines 205-263 saves
tiles_saved(all_bboxes, prefectures, railroads) ==
    IF all_bboxes = <<>> THEN {}
    ELSE LET minlon == Min({all_bboxes[b][1] : b \in DOMAIN all_bboxes})
             minlat == Min({all_bboxes[b][2] : b \in DOMAIN all_bboxes})
             maxlon == Max({all_bboxes[b][3] : b \in DOMAIN all_bboxes})
             maxlat == Max({all_bboxes[b][4] : b \in DOMAIN all_bboxes})
         IN  UNION {{[z |-> t.z, x |-> t.x, y |-> t.y,
                      image |-> tile_image(prefectures, railroads, t)] :
                        t \in tiles_of(minlon, minlat, maxlon, maxlat, z)} :
                    z \in MinZoom..MaxZoom}

\* positions around the box, none of them inside
PosSouthWest == <<1390000, 350000>>
PosSouthEast == <<1400000, 350000>>
PosNorthEast == <<1400000, 360000>>
PosNorthWest == <<1390000, 360000>>
PosWest == <<1390000, 356812>>
PosEast == <<1400000, 356812>>

\* a ring with all its vertices in the box, two of them on its edge
RingKanto == <<PosCorner, PosTokyo, PosMaxCorner, PosShinjuku, PosCorner>>
\* a hole in it
RingHole == <<PosTokyo, PosMaxCorner, PosShinjuku, PosTokyo>>
\* a ring around the box
RingAround == <<PosSouthWest, PosSouthEast, PosNorthEast, PosNorthWest,
                PosSouthWest>>
\* a ring that touches the box with one vertex on its edge
RingEdge == <<PosSouthWest, PosMaxCorner, PosBeyond, PosSouthWest>>
\* a ring with one vertex in the box
RingThin == <<PosSouthWest, PosShinjuku, PosBeyond, PosSouthWest>>

\* the geometries the features of the prefecture file are drawn from
PrefectureGeometryList ==
    << None,
       [type |-> "Polygon", coordinates |-> <<RingKanto, RingHole>>],
       [type |-> "Polygon", coordinates |-> <<RingAround>>],
       [type |-> "Polygon", coordinates |-> <<RingEdge>>],
       [type |-> "Polygon", coordinates |-> <<RingThin, RingHole>>],
       [type |-> "LineString", coordinates |-> <<PosShinjuku, PosTokyo>>],
       [type |-> "GeometryCollection",
        geometries |-> << [type |-> "MultiPolygon",
                           coordinates |-> << <<RingAround>>, <<RingKanto>> >>],
                          [type |-> "LineString",
                           coordinates |-> <<PosShinjuku, PosTokyo>>] >>] >>

\* the geometries the features of the railroad file are drawn from
RailroadGeometryList ==
    << None,
       [type |-> "LineString", coordinates |-> <<PosShinjuku, PosTokyo>>],
       [type |-> "LineString", coordinates |-> <<PosWest, PosEast>>],
       [type |-> "LineString", coordinates |-> <<PosFar, PosCorner>>],
       [type |-> "MultiLineString",
        coordinates |-> << <<PosOutside, PosWest>>, <<PosWest, PosTokyo>> >>],
       [type |-> "Polygon", coordinates |-> <<RingKanto>>] >>

PrefectureFeature(g) == [type |-> "Feature", geometry |-> PrefectureGeometryList[g]]

RailroadFeature(g) == [type |-> "Feature", geometry |-> RailroadGeometryList[g]]

InitTiles ==
    /\ \E n \in 0..MaxTileFeatures :
         \E g \in [1..n -> DOMAIN PrefectureGeometryList] :
            prefecture_features = [i \in 1..n |-> PrefectureFeature(g[i])]
    /\ \E n \in 0..MaxTileFeatures :
         \E g \in [1..n -> DOMAIN RailroadGeometryList] :
            railroad_features = [i \in 1..n |-> RailroadFeature(g[i])]
    /\ outdir_created = FALSE
    /\ kanto_prefectures = <<>>
    /\ kanto_railroads = <<>>
    /\ tiles_written = {}
    /\ gen_pc = "start"
    /\ IdleIter
    /\ IdleSel
    /\ IdleSum
    /\ IdleProc
    /\ IdleLoad
    /\ IdleGame

GenerateTiles ==
    /\ gen_pc = "start"
    /\ LET prefectures == kanto_prefectures_of(prefecture_features)
           railroads == kanto_railroads_of(railroad_features)
           all_bboxes == all_bboxes_of(prefectures \o railroads)
       IN  /\ kanto_prefectures' = prefectures
           /\ kanto_railroads' = railroads
           /\ outdir_created' = outdir_made(all_bboxes)
           /\ tiles_written' = tiles_saved(all_bboxes, prefectures, railroads)
    /\ gen_pc' = "done"
    /\ UNCHANGED <<prefecture_features, railroad_features, vars_iter>>
    /\ UNCHANGED <<vars_sel, vars_sum, vars_proc, vars_load, vars_game>>

NextTiles == GenerateTiles

SpecTiles == InitTiles /\ [][NextTiles]_vars

(***************************************************************************)
(* SpecIter: iter_geoms applied, up to MaxTraversals times, to a geometry  *)
(* or a feature: a simple geometry, a Multi* geometry, a collection of two *)
(* geometries and a collection that holds such a collection.               *)
(***************************************************************************)
IterGeometryList ==
    << [type |-> "Point", coordinates |-> PosTokyo],
       [type |-> "LineString", coordinates |-> <<PosShinjuku, PosTokyo>>],
       [type |-> "Polygon", coordinates |-> <<RingKanto, RingHole>>],
       [type |-> "MultiPoint",
        coordinates |-> <<PosTokyo, PosShinjuku, PosCorner>>],
       [type |-> "MultiLineString",
        coordinates |-> << <<PosOutside, PosFar>>, <<PosFar, PosTokyo>> >>],
       [type |-> "MultiPolygon",
        coordinates |-> << <<RingOutside>>, <<RingKanto, RingHole>> >>],
       [type |-> "MultiPoint", coordinates |-> <<>>],
       [type |-> "GeometryCollection", geometries |-> <<>>],
       [type |-> "GeometryCollection"] >>

IterShapes == {"geometry", "feature", "collection", "nested", "nested feature"}

\* the argument of iter_geoms built from three geometries of the list
iter_input(shape, i, j, k) ==
    LET collection == [type |-> "GeometryCollection",
                       geometries |-> <<IterGeometryList[i], IterGeometryList[j]>>]
        nested == [type |-> "GeometryCollection",
                   geometries |-> <<collection, IterGeometryList[k]>>]
    IN  CASE shape = "geometry" -> IterGeometryList[i]
          [] shape = "feature" ->
                [type |-> "Feature", geometry |-> IterGeometryList[i]]
          [] shape = "collection" -> collection
          [] shape = "nested" -> nested
          [] shape = "nested feature" ->
                [type |-> "Feature", geometry |-> nested]

InitIter ==
    /\ \E shape \in IterShapes :
          \E i, j, k \in DOMAIN IterGeometryList :
             iter_feature = iter_input(shape, i, j, k)
    /\ iter_yielded = <<>>
    /\ IdleMain
    /\ IdleSel
    /\ IdleSum
    /\ IdleProc
    /\ IdleLoad
    /\ IdleGame

\* list(iter_geoms(feature)): one traversal from the start to the end
CallIterGeoms ==
    /\ iter_feature # None
    /\ Len(iter_yielded) < MaxTraversals
    /\ iter_yielded' = Append(iter_yielded, iter_geoms(iter_feature))
    /\ UNCHANGED iter_feature
    /\ UNCHANGED <<prefecture_features, railroad_features, outdir_created,
                   kanto_prefectures, kanto_railroads, tiles_written, gen_pc>>
    /\ UNCHANGED <<vars_sel, vars_sum, vars_proc, vars_load, vars_game>>

NextIter == CallIterGeoms

SpecIter == InitIter /\ [][NextIter]_vars

(***************************************************************************)
(* Claims about the selection engine (checked under SpecSelect).           *)
(***************************************************************************)
SelReturned == sel_result # NotCalled /\ sel_result # IndexError

\* C1: with more than 5 stations and difficulty_level >= 1 the station
\* select_random_station returns is never one of the 5 stations
\* get_top5_stations returns for the same catalog.
C1_SelectionExcludesTop5 ==
    (Len(sel_stations) > TopN /\ sel_result # NotCalled)
        => sel_result \notin Range(get_top5_stations(sel_stations))

C1_Witness ==
    /\ Len(sel_stations) > TopN
    /\ SelReturned
    /\ \E t \in Range(get_top5_stations(sel_stations)) :
          t.passengers = sel_result.passengers

\* C2: with n > 5 stations and difficulty_level d >= 1 the stations
\* select_random_station can return are exactly those at positions
\* 6 .. min(5 + d, n) of the passenger-descending stable sort.
C2_SelectionPoolIsRanks6ToCut ==
    Len(sel_stations) > TopN =>
        LET n == Len(sel_stations)
            sorted == sorted_stations(sel_stations)
            expected == {sorted[i] : i \in 6..Min({5 + sel_difficulty, n})}
        IN  /\ select_random_station(sel_stations, sel_difficulty) = expected
            /\ sel_result # NotCalled => sel_result \in expected

C2_Witness ==
    /\ Len(sel_stations) > TopN + sel_difficulty
    /\ SelReturned
    /\ sel_result = sorted_stations(sel_stations)[TopN + sel_difficulty]

\* C10: with 5 or fewer stations select_random_station raises for every
\* difficulty_level (it returns neither a station nor None) and leaves the
\* catalog as it was.
C10_SmallCatalogRaises ==
    /\ [](Len(sel_stations) <= TopN /\ sel_result # NotCalled
            => sel_result = IndexError)
    /\ [][sel_stations' = sel_stations]_vars

C10_Witness ==
    /\ Len(sel_stations) = TopN
    /\ sel_result = IndexError

\* C29: when difficulty_level is smaller than the number of stations, every
\* station select_random_station can return for it has passengers >= the
\* min_passengers the start screen shows, the passengers of the station at
\* rank difficulty_level.
C29_ThresholdBoundsSelection ==
    SelReturned /\ sel_difficulty < Len(sel_stations) =>
        sel_result.passengers >= min_passengers(sel_stations, sel_difficulty)

(***************************************************************************)
(* Claims about the summary engine (checked under SpecSummary).            *)
(***************************************************************************)
SumReturned == sum_summary # NotCalled /\ sum_summary # None

\* C4: for a non-empty result sequence the four bucket counts add up to
\* total_rounds, which is the number of results.
C4_BucketsPartitionResults ==
    SumReturned =>
        /\ sum_summary.total_rounds = Len(sum_results)
        /\ sum_summary.perfect_guesses + sum_summary.good_guesses
             + sum_summary.ok_guesses + sum_summary.poor_guesses
           = sum_summary.total_rounds

C4_Witness ==
    /\ SumReturned
    /\ Len(sum_results) = MaxResults
    /\ sum_summary.perfect_guesses > 0
    /\ sum_summary.good_guesses > 0
    /\ \E i \in DOMAIN sum_results : sum_results[i].distance = PerfectLimit

DistancesOf(results) == [i \in DOMAIN results |-> results[i].distance]

\* C16 as stated: for a non-empty result sequence best_distance <=
\* average_distance <= worst_distance, best and worst being the minimum
\* and the maximum distance, and average_distance * total_rounds equals
\* total_distance, the sum of the distances.
C16_Original_AverageBetweenBestAndWorst ==
    SumReturned =>
        LET distances == DistancesOf(sum_results)
        IN  /\ sum_summary.best_distance = Min(Range(distances))
            /\ sum_summary.worst_distance = Max(Range(distances))
            /\ FloatLeq(FloatOf(sum_summary.best_distance, 1),
                        sum_summary.average_distance)
            /\ FloatLeq(sum_summary.average_distance,
                        FloatOf(sum_summary.worst_distance, 1))
            /\ float_mul(sum_summary.average_distance, sum_summary.total_rounds)
                  = sum_summary.total_distance
            /\ sum_summary.total_distance = FloatOf(SumSeq(distances), 1)

\* x <= y * (1 + k * 2^-(MantissaBits-1)) for a float x and an int y
WithinRoundingAbove(x, y, k) ==
    FloatNum(x) * Pow2(MantissaBits - 1)
       <= y * (Pow2(MantissaBits - 1) + k) * FloatDen(x)

\* y * (1 - k * 2^-(MantissaBits-1)) <= x for a float x and an int y
WithinRoundingBelow(x, y, k) ==
    y * (Pow2(MantissaBits - 1) - k) * FloatDen(x)
       <= FloatNum(x) * Pow2(MantissaBits - 1)

\* C16 as amended: for a non-empty sequence of n results best and worst
\* are the minimum and the maximum distance, total_distance is the sum of
\* the distances and average_distance the mean, each up to the rounding
\* of the float operations: average_distance is the rounded quotient
\* total_distance / n, and with eps = 2^-(MantissaBits-1) the total lies
\* within n * eps of the sum and
\* best * (1 - n * eps) <= average <= worst * (1 + n * eps);
\* a single result is its own best, worst, average and total.
C16_AverageWithinRounding ==
    SumReturned =>
        LET distances == DistancesOf(sum_results)
            n == Len(distances)
            average == sum_summary.average_distance
            total == sum_summary.total_distance
        IN  /\ sum_summary.total_rounds = n
            /\ sum_summary.best_distance = Min(Range(distances))
            /\ sum_summary.worst_distance = Max(Range(distances))
            /\ sum_summary.best_distance <= sum_summary.worst_distance
            /\ WithinRoundingAbove(total, SumSeq(distances), n)
            /\ WithinRoundingBelow(total, SumSeq(distances), n)
            /\ average = FloatOf(FloatNum(total), FloatDen(total) * n)
            /\ WithinRoundingAbove(average, sum_summary.worst_distance, n)
            /\ WithinRoundingBelow(average, sum_summary.best_distance, n)
            /\ n = 1 => /\ average = FloatOf(distances[1], 1)
                        /\ total = FloatOf(distances[1], 1)

\* three equal distances whose rounded mean exceeds each of them
C16_Witness ==
    /\ SumReturned
    /\ Len(sum_results) = 3
    /\ sum_summary.best_distance = sum_summary.worst_distance
    /\ ~FloatLeq(sum_summary.average_distance,
                 FloatOf(sum_summary.worst_distance, 1))

\* C17: a distance d counts as perfect iff d < 0.5, good iff
\* 0.5 <= d < 2.0, ok iff 2.0 <= d < 5.0 and poor iff d >= 5.0, so that
\* 0.5 is good, 2.0 is ok and 5.0 is poor; and the rating app_cloud.py
\* shows for a round is the class the summary counts its distance in.
C17_BucketsHalfOpenRatingAgrees ==
    SumReturned =>
        LET distances == DistancesOf(sum_results)
            Rated(class) == {i \in DOMAIN distances : round_rating(distances[i]) = class}
        IN  /\ sum_summary.perfect_guesses
                 = Cardinality({i \in DOMAIN distances : distances[i] < PerfectLimit})
            /\ sum_summary.good_guesses
                 = Cardinality({i \in DOMAIN distances :
                                   PerfectLimit <= distances[i] /\ distances[i] < GoodLimit})
            /\ sum_summary.ok_guesses
                 = Cardinality({i \in DOMAIN distances :
                                   GoodLimit <= distances[i] /\ distances[i] < OkLimit})
            /\ sum_summary.poor_guesses
                 = Cardinality({i \in DOMAIN distances : distances[i] >= OkLimit})
            /\ sum_summary.perfect_guesses = Cardinality(Rated("perfect"))
            /\ sum_summary.good_guesses = Cardinality(Rated("good"))
            /\ sum_summary.ok_guesses = Cardinality(Rated("ok"))
            /\ sum_summary.poor_guesses = Cardinality(Rated("poor"))
            /\ \A i \in DOMAIN distances :
                  /\ distances[i] = PerfectLimit => round_rating(distances[i]) = "good"
                  /\ distances[i] = GoodLimit => round_rating(distances[i]) = "ok"
                  /\ distances[i] = OkLimit => round_rating(distances[i]) = "poor"

\* one result on each of the three thresholds
C17_Witness ==
    /\ SumReturned
    /\ {sum_results[i].distance : i \in DOMAIN sum_results}
          = {PerfectLimit, GoodLimit, OkLimit}
    /\ sum_summary.perfect_guesses = 0
    /\ sum_summary.good_guesses = 1
    /\ sum_summary.ok_guesses = 1
    /\ sum_summary.poor_guesses = 1

(***************************************************************************)
(* Claims about the station aggregator (checked under SpecProcess).        *)
(***************************************************************************)
ProcDone == proc_pc = "done"

StationCountSum ==
    SumSeq([i \in DOMAIN integrated_stations |->
               integrated_stations[i].properties.station_count])

\* the sum of the S12_057 counts of the surviving features called station_name
NamedCountSum(station_name) ==
    SumSeq([i \in DOMAIN kanto_stations |->
               IF station_name_of(kanto_stations[i]) = station_name
               THEN PropGet(kanto_stations[i].properties, "S12_057", 0)
               ELSE 0])

\* the surviving features that have a name whose counts add up to more than 0
CountedSurvivors ==
    {i \in DOMAIN kanto_stations :
        /\ station_name_of(kanto_stations[i]) # ""
        /\ NamedCountSum(station_name_of(kanto_stations[i])) > 0}

\* C3 as stated: the sum of station_count over the emitted stations equals
\* the number of features that survived the bounding-box filter.
C3_Original_CountSumIsSurvivors ==
    ProcDone => StationCountSum = Len(kanto_stations)

\* C3 as amended: the sum of station_count over the emitted stations equals
\* the number of surviving features that carry a non-empty name whose group
\* has a summed passenger count greater than 0.
C3_CountSumIsCountedSurvivors ==
    ProcDone => StationCountSum = Cardinality(CountedSurvivors)

C3_Witness ==
    /\ ProcDone
    /\ Len(kanto_stations) = 2
    /\ Cardinality(CountedSurvivors) = 1
    /\ Len(integrated_stations) = 1
    /\ integrated_stations[1].properties.station_count = 1

\* C5: every emitted station has total_passengers > 0; a name group whose
\* counts (missing, zero, negative or mixed) do not add up to a positive
\* number is not emitted.
C5_EmittedHavePassengers ==
    ProcDone =>
        /\ \A i \in DOMAIN integrated_stations :
              integrated_stations[i].properties.total_passengers > 0
        /\ \A k \in DOMAIN kanto_stations :
              NamedCountSum(station_name_of(kanto_stations[k])) <= 0 =>
                 \A i \in DOMAIN integrated_stations :
                    integrated_stations[i].properties.station_name
                       # station_name_of(kanto_stations[k])

C5_Witness ==
    /\ ProcDone
    /\ Len(integrated_stations) = 1
    /\ \E k \in DOMAIN kanto_stations :
          /\ station_name_of(kanto_stations[k]) # ""
          /\ NamedCountSum(station_name_of(kanto_stations[k])) = 0
          /\ "S12_057" \in DOMAIN kanto_stations[k].properties

\* the surviving features called station_name, in file order
NamedSurvivors(station_name) ==
    {k \in DOMAIN kanto_stations :
        station_name_of(kanto_stations[k]) = station_name}

\* C18: for every emitted station total_passengers is the sum of S12_057
\* over the surviving features of its name, a missing or zero count adding
\* 0, and station_count is the number of those features.
C18_TotalsAreSumsOverNameGroup ==
    ProcDone =>
        \A i \in DOMAIN integrated_stations :
           LET properties == integrated_stations[i].properties
           IN  /\ properties.total_passengers
                     = NamedCountSum(properties.station_name)
               /\ properties.station_count
                     = Cardinality(NamedSurvivors(properties.station_name))

\* a station merged of two features, one of them with a zero or a negative
\* count
C18_Witness ==
    /\ ProcDone
    /\ Len(integrated_stations) = 1
    /\ integrated_stations[1].properties.station_count = 2
    /\ \E k \in DOMAIN kanto_stations :
          PropGet(kanto_stations[k].properties, "S12_057", 1) <= 0
    /\ integrated_stations[1].properties.total_passengers = 1

\* the coordinates of the surviving features called station_name, member
\* after member
NamedCoords(station_name) ==
    Flatten([k \in DOMAIN kanto_stations |->
                IF station_name_of(kanto_stations[k]) = station_name
                THEN extract_coordinates(kanto_stations[k].geometry)
                ELSE <<>>])

\* the coordinate list of an emitted geometry
EmittedCoords(geometry) ==
    IF geometry.type = "Point" THEN <<geometry.coordinates>>
    ELSE geometry.coordinates

FirstIndex(coords, coord) ==
    CHOOSE i \in DOMAIN coords :
       /\ coords[i] = coord
       /\ \A j \in 1..(i - 1) : coords[j] # coord

\* C19: the coordinate list of an emitted station has no coordinate twice,
\* has every coordinate of every merged member and has them in first-seen
\* order; the geometry is a Point exactly when one coordinate remains and
\* a MultiPoint of the whole list otherwise.
C19_CoordinatesUniqueInFirstSeenOrder ==
    ProcDone =>
        \A s \in DOMAIN integrated_stations :
           LET geometry == integrated_stations[s].geometry
               unique == EmittedCoords(geometry)
               merged == NamedCoords(integrated_stations[s].properties.station_name)
           IN  /\ \A i, j \in DOMAIN unique : unique[i] = unique[j] => i = j
               /\ Range(unique) = Range(merged)
               /\ \A i, j \in DOMAIN unique :
                     i < j => FirstIndex(merged, unique[i]) < FirstIndex(merged, unique[j])
               /\ geometry.type = "Point" <=> Cardinality(Range(merged)) = 1
               /\ geometry.type # "Point" => geometry.type = "MultiPoint"

\* a station of two members with four coordinates, one of them twice
C19_Witness ==
    /\ ProcDone
    /\ Len(integrated_stations) = 1
    /\ integrated_stations[1].properties.station_count = 2
    /\ integrated_stations[1].geometry.type = "MultiPoint"
    /\ Len(integrated_stations[1].geometry.coordinates) = 3
    /\ Len(NamedCoords(integrated_stations[1].properties.station_name)) = 4

\* C6: the emitted list is in non-increasing order of total_passengers.
C6_OutputSortedDescending ==
    ProcDone =>
        \A i \in 1..(Len(integrated_stations) - 1) :
           integrated_stations[i].properties.total_passengers
              >= integrated_stations[i + 1].properties.total_passengers

C6_Witness ==
    /\ ProcDone
    /\ Len(integrated_stations) = 2
    /\ integrated_stations[1].properties.total_passengers
          > integrated_stations[2].properties.total_passengers
    /\ station_name_of(kanto_stations[1])
          = integrated_stations[2].properties.station_name

SameStation(a, b) ==
    /\ a.properties = b.properties
    /\ a.geometry.type = b.geometry.type
    /\ a.geometry.coordinates = b.geometry.coordinates

SameCatalog(a, b) ==
    /\ Len(a) = Len(b)
    /\ \A i \in DOMAIN a : SameStation(a[i], b[i])

\* C7: any permutation of the input feature list yields the identical
\* ordered catalog, coordinates included.
C7_OutputIndependentOfInputOrder ==
    ProcDone =>
        \A perm \in Permutations(DOMAIN features) :
           SameCatalog(
              process_station_data([i \in DOMAIN features |-> features[perm[i]]]),
              integrated_stations)

\* C30: every emitted station has its canonical location, the coordinate
\* of the Point or the first coordinate of the MultiPoint, inside the
\* bounding box of the filter.
C30_CanonicalLocationInBox ==
    ProcDone =>
        \A i \in DOMAIN integrated_stations :
           LET position == station_position(integrated_stations[i].geometry)
           IN  is_in_kanto_range(position[1], position[2])

(***************************************************************************)
(* Claims about input formats and the loaders (checked under SpecFormats). *)
(***************************************************************************)
\* a position inside the bounding box, the bounds included
InsideBox(position) ==
    /\ Len(position) >= 2
    /\ KANTO_BBOX[1] <= position[1] /\ position[1] <= KANTO_BBOX[3]
    /\ KANTO_BBOX[2] <= position[2] /\ position[2] <= KANTO_BBOX[4]

\* every point, every line vertex and every vertex of every ring of every
\* polygon of a geometry
Vertices(geometry) ==
    IF geometry.type = "Point" THEN {geometry.coordinates}
    ELSE IF geometry.type \in {"MultiPoint", "LineString"}
         THEN Range(geometry.coordinates)
    ELSE IF geometry.type \in {"MultiLineString", "Polygon"}
         THEN UNION {Range(geometry.coordinates[i]) : i \in DOMAIN geometry.coordinates}
    ELSE IF geometry.type = "MultiPolygon"
         THEN UNION {UNION {Range(geometry.coordinates[i][j]) :
                               j \in DOMAIN geometry.coordinates[i]} :
                        i \in DOMAIN geometry.coordinates}
    ELSE {}

HasVertexInBox(feature) ==
    /\ feature.geometry # None
    /\ \E position \in Vertices(feature.geometry) : InsideBox(position)

\* C20: a source feature survives the station filter iff it has a geometry
\* and one or more of all its coordinates (every point, every line vertex,
\* every vertex of every ring of every polygon) lies inside the bounding
\* box, bounds included; a feature whose only vertex inside is in a later
\* ring or segment survives.
C20_SurvivesIffSomeVertexInBox ==
    ProcDone =>
        /\ \A i \in DOMAIN features :
              in_kanto(features[i]) <=> HasVertexInBox(features[i])
        /\ Len(kanto_stations)
              = Cardinality({i \in DOMAIN features : HasVertexInBox(features[i])})
        /\ \A k \in DOMAIN kanto_stations : HasVertexInBox(kanto_stations[k])

\* a polygon whose first ring is outside the box survives, a point just
\* north of the box does not
C20_Witness ==
    /\ ProcDone
    /\ Len(features) = 2
    /\ Len(kanto_stations) = 1
    /\ kanto_stations[1].geometry.type = "Polygon"
    /\ \A position \in Range(kanto_stations[1].geometry.coordinates[1]) :
          ~InsideBox(position)
    /\ features[2].geometry = [type |-> "Point", coordinates |-> PosBeyond]

\* a feature the run cannot read: a geometry without type, or no properties
Malformed(feature) ==
    \/ feature.geometry # None /\ "type" \notin DOMAIN feature.geometry
    \/ "properties" \notin DOMAIN feature

RECURSIVE WithoutMalformed(_)
WithoutMalformed(fs) ==
    IF fs = <<>> THEN <<>>
    ELSE IF Malformed(fs[1]) THEN WithoutMalformed(Tail(fs))
    ELSE <<fs[1]>> \o WithoutMalformed(Tail(fs))

\* C12: a single malformed feature is skipped and never aborts the run:
\* process_station_data goes on to the end and writes what it writes for
\* the remaining features.
C12_MalformedFeatureIsSkipped ==
    /\ proc_pc # "start"
    /\ Cardinality({i \in DOMAIN features : Malformed(features[i])}) <= 1
    => /\ proc_pc = "done"
       /\ SameCatalog(integrated_stations,
                      process_station_data(WithoutMalformed(features)))

\* C14: load_stations of app.py returns one station for every feature of
\* the written catalog, in the same order, with its name, passengers and
\* station_count and with the coordinate of the Point or the first
\* coordinate of the MultiPoint; no feature is skipped or makes it fail.
C14_CatalogRoundTripsThroughApp ==
    loaded_app # NotCalled =>
        /\ loaded_app # ValueError
        /\ Len(loaded_app.returned) = Len(integrated_stations)
        /\ \A i \in DOMAIN integrated_stations :
              LET feature == integrated_stations[i]
                  station == loaded_app.returned[i]
                  position == IF feature.geometry.type = "Point"
                              THEN feature.geometry.coordinates
                              ELSE feature.geometry.coordinates[1]
              IN  /\ station.name = feature.properties.station_name
                  /\ station.passengers = feature.properties.total_passengers
                  /\ station.station_count = feature.properties.station_count
                  /\ <<station.lon, station.lat>> = position

\* C15: load_stations of app_cloud.py returns one station for every
\* feature of the written catalog, with its name, passengers and
\* station_count, and does not return None.
C15_CloudLoadsWrittenCatalog ==
    loaded_cloud # NotCalled =>
        /\ loaded_cloud # None
        /\ Len(loaded_cloud.returned) = Len(integrated_stations)
        /\ \A i \in DOMAIN integrated_stations :
              LET feature == integrated_stations[i]
                  station == loaded_cloud.returned[i]
              IN  /\ station.name = feature.properties.station_name
                  /\ station.passengers = feature.properties.total_passengers
                  /\ station.station_count = feature.properties.station_count

(***************************************************************************)
(* Claims about the tile generator (checked under SpecTiles).              *)
(***************************************************************************)
GenDone == gen_pc = "done"

NoSurvivor ==
    /\ \A i \in DOMAIN prefecture_features :
          ~is_kanto_prefecture(prefecture_features[i])
    /\ \A i \in DOMAIN railroad_features :
          ~is_kanto_railroad(railroad_features[i])

\* C13: if no prefecture feature and no railroad feature survives the
\* bounding-box pre-filter, the run ends before the zoom loop: the output
\* directory is not created and no tile file is written for any zoom.
C13_NoSurvivorNoOutput ==
    GenDone /\ NoSurvivor =>
        /\ ~outdir_created
        /\ tiles_written = {}

\* both files have features, one of them with vertices in the box but of
\* the wrong kind for its file, and none survives
C13_Witness ==
    /\ GenDone
    /\ NoSurvivor
    /\ Len(prefecture_features) = 2
    /\ Len(railroad_features) = 2
    /\ \E i \in DOMAIN prefecture_features :
          /\ prefecture_features[i].geometry # None
          /\ prefecture_features[i].geometry.type = "LineString"
          /\ in_generator_bbox(prefecture_features[i].geometry.coordinates[1])
    /\ ~outdir_created

\* the vertices of the rings of the Polygon parts of a geometry
RECURSIVE PolygonVertices(_)
PolygonVertices(geometry) ==
    IF geometry = None THEN {}
    ELSE IF geometry.type = "Polygon"
    THEN UNION {Range(geometry.coordinates[r]) : r \in DOMAIN geometry.coordinates}
    ELSE IF geometry.type = "MultiPolygon"
    THEN UNION {UNION {Range(geometry.coordinates[m][r]) :
                          r \in DOMAIN geometry.coordinates[m]} :
                   m \in DOMAIN geometry.coordinates}
    ELSE IF geometry.type = "GeometryCollection"
    THEN UNION {PolygonVertices(geometry.geometries[c]) :
                   c \in DOMAIN geometry.geometries}
    ELSE {}

\* the vertices of the LineString parts of a geometry
RECURSIVE LineVertices(_)
LineVertices(geometry) ==
    IF geometry = None THEN {}
    ELSE IF geometry.type = "LineString" THEN Range(geometry.coordinates)
    ELSE IF geometry.type = "MultiLineString"
    THEN UNION {Range(geometry.coordinates[m]) : m \in DOMAIN geometry.coordinates}
    ELSE IF geometry.type = "GeometryCollection"
    THEN UNION {LineVertices(geometry.geometries[c]) :
                   c \in DOMAIN geometry.geometries}
    ELSE {}

\* min_lon <= lon <= max_lon and min_lat <= lat <= max_lat
InBoxInclusive(v) ==
    /\ 1393389 <= v[1] /\ v[1] <= 1399349
    /\ 354948 <= v[2] /\ v[2] <= 358284

OnBoxEdge(v) ==
    /\ InBoxInclusive(v)
    /\ (v[1] \in {1393389, 1399349} \/ v[2] \in {354948, 358284})

SamplesPrefecture(feature) ==
    \E v \in PolygonVertices(feature.geometry) : InBoxInclusive(v)

SamplesRailroad(feature) ==
    \E v \in LineVertices(feature.geometry) : InBoxInclusive(v)

\* the vertices lie on both sides of the box and none lies in it
CrossesUnsampled(vertices) ==
    /\ \A v \in vertices : ~InBoxInclusive(v)
    /\ \E v, w \in vertices : v[1] < 1393389 /\ w[1] > 1399349

\* C21: the region test of the tile pipeline samples vertices with
\* inclusive bounds: a prefecture feature is kept if and only if some
\* vertex of some ring of one of its Polygon parts lies in the closed box,
\* a railroad feature if and only if some vertex of one of its LineString
\* parts does; a vertex on the edge of the box counts, a geometry that
\* crosses the box without a vertex in it does not.
C21_RegionTestSamplesVertices ==
    /\ \A i \in DOMAIN prefecture_features :
          is_kanto_prefecture(prefecture_features[i])
             <=> SamplesPrefecture(prefecture_features[i])
    /\ \A i \in DOMAIN railroad_features :
          is_kanto_railroad(railroad_features[i])
             <=> SamplesRailroad(railroad_features[i])
    /\ GenDone =>
          /\ Len(kanto_prefectures) =
                Cardinality({i \in DOMAIN prefecture_features :
                                SamplesPrefecture(prefecture_features[i])})
          /\ \A k \in DOMAIN kanto_prefectures :
                SamplesPrefecture(kanto_prefectures[k])
          /\ Len(kanto_railroads) =
                Cardinality({i \in DOMAIN railroad_features :
                                SamplesRailroad(railroad_features[i])})
          /\ \A k \in DOMAIN kanto_railroads :
                SamplesRailroad(kanto_railroads[k])

\* in each file one feature is kept for a single vertex on the edge of the
\* box and one that crosses the box is dropped
C21_Witness ==
    /\ GenDone
    /\ Len(prefecture_features) = 2
    /\ Len(kanto_prefectures) = 1
    /\ \A v \in PolygonVertices(kanto_prefectures[1].geometry) :
          InBoxInclusive(v) => OnBoxEdge(v)
    /\ \E i \in DOMAIN prefecture_features :
          CrossesUnsampled(PolygonVertices(prefecture_features[i].geometry))
    /\ Len(railroad_features) = 2
    /\ Len(kanto_railroads) = 1
    /\ \A v \in LineVertices(kanto_railroads[1].geometry) :
          InBoxInclusive(v) => OnBoxEdge(v)
    /\ \E i \in DOMAIN railroad_features :
          CrossesUnsampled(LineVertices(railroad_features[i].geometry))

IsRailroadDraw(call) == call.fill = railroad_line

IsPrefectureDraw(call) == call.fill \in {prefecture_fill, prefecture_line}

\* C24: on every tile the draw calls are ordered by layer: every fill and
\* every outline of a prefecture polygon is drawn before the first
\* railroad line, so no polygon is painted over a railroad line.
C24_PrefecturesUnderRailroads ==
    \A tile \in tiles_written :
       \A i, j \in DOMAIN tile.image :
          IsRailroadDraw(tile.image[i]) /\ IsPrefectureDraw(tile.image[j])
             => j < i

\* a tile on which two polygons and two railroad lines are drawn
C24_Witness ==
    /\ GenDone
    /\ \E tile \in tiles_written :
          /\ Cardinality({i \in DOMAIN tile.image :
                             tile.image[i].op = "polygon"}) = 2
          /\ Cardinality({i \in DOMAIN tile.image :
                             IsRailroadDraw(tile.image[i])}) = 2
          /\ \E i \in DOMAIN tile.image :
                tile.image[i].op = "line" /\ IsPrefectureDraw(tile.image[i])

\* the exterior rings (first rings) of the Polygon parts of the kept
\* prefecture features
ExteriorRings ==
    UNION {LET parts == iter_geoms(kanto_prefectures[f])
           IN  {parts[p].coords[1] :
                   p \in {q \in DOMAIN parts : parts[q].gtype = "Polygon"}} :
           f \in DOMAIN kanto_prefectures}

\* C25 as stated: the ring that is filled is the exterior ring (the first
\* ring) of a polygon, with 3 or more vertices in the box; a hole is
\* stroked only and never filled, also when the exterior ring has fewer
\* than 3 vertices in the box and a hole has 3 or more.
C25_OnlyExteriorRingFilled ==
    \A tile \in tiles_written :
       \A i \in DOMAIN tile.image :
          tile.image[i].op = "polygon" =>
             \E ring \in ExteriorRings :
                /\ Len(filtered_ring_of(ring)) >= 3
                /\ tile.image[i].pts = ring_pts_of(filtered_ring_of(ring), tile)

(***************************************************************************)
(* Claims about iter_geoms (checked under SpecIter).                       *)
(***************************************************************************)
\* the geometry the traversal is about: that of the feature, or the
\* argument when it is a geometry
IterGeometry ==
    IF iter_feature.type = "Feature" THEN iter_feature.geometry ELSE iter_feature

Singular(gtype) ==
    CASE gtype = "MultiPoint" -> "Point"
      [] gtype = "MultiLineString" -> "LineString"
      [] gtype = "MultiPolygon" -> "Polygon"

Children(geometry) ==
    IF "geometries" \in DOMAIN geometry THEN geometry.geometries ELSE <<>>

\* what the claim says a traversal of a geometry yields
RECURSIVE ExpectedPairs(_)
ExpectedPairs(geometry) ==
    IF geometry.type = "GeometryCollection"
    THEN Flatten([c \in DOMAIN Children(geometry) |->
                     ExpectedPairs(Children(geometry)[c])])
    ELSE IF geometry.type \in {"MultiPoint", "MultiLineString", "MultiPolygon"}
    THEN [m \in 1..Len(geometry.coordinates) |->
             [gtype |-> Singular(geometry.type),
              coords |-> geometry.coordinates[m]]]
    ELSE <<[gtype |-> geometry.type, coords |-> geometry.coordinates]>>

\* C22: iter_geoms yields for a Multi* geometry of k members the k pairs
\* (singular type, member) in member order, for a GeometryCollection the
\* concatenation, in child order and at any depth, of what it yields for
\* the children, and for any other geometry the one pair (type,
\* coordinates); the argument is not modified and a second traversal
\* yields the same sequence.
C22_IterGeomsFlattens ==
    /\ [](\A t \in DOMAIN iter_yielded :
            /\ iter_yielded[t] = ExpectedPairs(IterGeometry)
            /\ IterGeometry.type \in {"MultiPoint", "MultiLineString",
                                      "MultiPolygon"}
                  => Len(iter_yielded[t]) = Len(IterGeometry.coordinates)
            /\ IterGeometry.type \in {"Point", "LineString", "Polygon"}
                  => Len(iter_yielded[t]) = 1
            /\ iter_yielded[t] = iter_yielded[1])
    /\ [][iter_feature' = iter_feature]_vars

\* two traversals of a collection that holds a collection of a
\* MultiPolygon of two members and a MultiPoint of three
C22_Witness ==
    /\ Len(iter_yielded) = 2
    /\ IterGeometry.type = "GeometryCollection"
    /\ Len(Children(IterGeometry)) = 2
    /\ Children(IterGeometry)[1].type = "GeometryCollection"
    /\ Len(Children(Children(IterGeometry)[1])) = 2
    /\ Children(Children(IterGeometry)[1])[1].type = "MultiPolygon"
    /\ Children(Children(IterGeometry)[1])[2].type = "MultiPoint"
    /\ Len(Children(Children(IterGeometry)[1])[2].coordinates) = 3
    /\ Children(IterGeometry)[2].type = "LineString"
    /\ Len(iter_yielded[2]) = 6
    /\ iter_yielded[2][6].gtype = "LineString"
    /\ iter_yielded[2][1].gtype = "Polygon"
    /\ iter_yielded[2][5].gtype = "Point"

(***************************************************************************)
(* Claims about the session (checked under Spec).                          *)
(***************************************************************************)
\* In a session no recorded result and no current question has one of the
\* five top-ranked stations as its answer.
AnswersAreNeverTop5 ==
    LET top5 == Range(get_top5_stations(stations))
    IN  /\ current_station # None => current_station \notin top5
        /\ \A i \in DOMAIN game_results : game_results[i].station \notin top5

\* C8: whenever show_summary is set, game_results is complete: it holds
\* exactly total_rounds results, the i-th of them for round i.
C8_SummaryHasCompleteResults ==
    show_summary =>
        /\ Len(game_results) = total_rounds
        /\ \A i \in DOMAIN game_results : game_results[i].round = i

\* C9: game_results changes only by a reset to the empty list or by the
\* append of the result of the submitted guess, which leaves the results
\* already there as they were and in place; and the result list of a
\* game_history entry that stays in the history does not change.
C9_ResultsOnlyAppended ==
    [][ /\ game_results' # game_results =>
            \/ game_results' = <<>>
            \/ /\ AnswerOffered
               /\ Len(game_results') = Len(game_results) + 1
               /\ SubSeq(game_results', 1, Len(game_results)) = game_results
               /\ game_results'[Len(game_results')] = current_result'
               /\ current_result'.round = round
        /\ Len(game_history') >= Len(game_history) =>
            \A i \in DOMAIN game_history :
               game_history'[i].results = game_history[i].results
      ]_vars

C9_Witness ==
    /\ app = "cloud"
    /\ game_started /\ ~show_summary
    /\ Len(game_results) = 2
    /\ game_results[1].distance # game_results[2].distance
    /\ Len(game_history) = 2
    /\ game_history[2].results # game_results

\* a game is being played: the game screen shows a question
ActiveGame == Screen = "game" /\ current_station # None

\* C26: in every state of an active game one result is recorded per round:
\* 1 <= round <= total_rounds, game_results has round - 1 results while a
\* guess is awaited and round results while the result is shown, the i-th
\* result has the round field i, and no guess can be submitted for a round
\* whose result is shown.
C26_OneResultPerRound ==
    ActiveGame =>
        /\ 1 <= round /\ round <= total_rounds
        /\ ~show_result => Len(game_results) = round - 1
        /\ show_result => Len(game_results) = round
        /\ \A i \in DOMAIN game_results : game_results[i].round = i
        /\ show_result => ~AnswerOffered

\* the result of the second round is shown
C26_Witness ==
    /\ ActiveGame
    /\ show_result
    /\ round = 2
    /\ total_rounds = 2
    /\ Len(game_results) = 2
    /\ clicked_location # None

\* C28: a started game terminates: a player who keeps clicking, answering
\* and pressing the next/finish button reaches the summary screen, with
\* exactly total_rounds submitted guesses, and round never exceeds
\* total_rounds in a started game (checked under SpecPlay).
C28_StartedGameTerminates ==
    /\ [](ActiveGame => round <= total_rounds)
    /\ ActiveGame ~> show_summary
    /\ [](show_summary => Len(game_results) = total_rounds)

\* the summary screen after a game of two rounds
C28_Witness ==
    /\ show_summary
    /\ total_rounds = 2
    /\ round = 2
    /\ Len(game_results) = 2

\* C27 as stated: every finished game is recorded in game_history once:
\* game_history grows only in the step that ends a game and shows the
\* summary screen, and then by one entry; no later script run while the
\* summary is shown, the new-game button and the clear-history button
\* included, adds an entry.
C27_GameRecordedOnce ==
    [][Len(game_history') > Len(game_history)
         => /\ ~show_summary /\ show_summary'
            /\ Len(game_history') = Len(game_history) + 1]_vars

\* C11: calculate_game_summary of an empty result list is None, and a
\* script run that shows the summary screen with an empty game_results
\* adds no entry to game_history.
C11_EmptyResultsGiveNoSummary ==
    /\ [](show_summary /\ game_results = <<>>
             => calculate_game_summary(game_results) = None)
    /\ [][show_summary' /\ game_results' = <<>>
             => Len(game_history') <= Len(game_history)]_vars

\* the summary screen of app_cloud.py after the sidebar's new-game button:
\* the history has the entry of the finished game and no other
C11_Witness ==
    /\ app = "cloud"
    /\ show_summary
    /\ game_results = <<>>
    /\ Len(game_history) = 1
    /\ game_history[1].results # <<>>

====
